---- MODULE Spec2Model ----
(***************************************************************************)
(* Model of hft::LockFreeOrderBook (src/examples/cpp/order_book.hpp).      *)
(*                                                                         *)
(* Prices are modelled as the integers 0 .. DblMax: 0 is the double 0.0    *)
(* (the constructor's initial price and get_best_bid's initial extremum),  *)
(* DblMax is std::numeric_limits<double>::max() (get_best_ask's initial    *)
(* extremum), and 1 .. MaxPrice are the ordinary prices in between.  The   *)
(* code only compares prices (==, <, >), which the integers preserve.      *)
(* Sizes are 0 .. MaxSize (negative sizes, NaN and infinite prices are     *)
(* left out).  The caller stamps every update with its clock reading, as   *)
(* the usage example does with get_timestamp_ns(); the clock is the number *)
(* of update calls made, so a timestamp names the call that wrote it.      *)
(*                                                                         *)
(* Spec     : the six operations executed one at a time on both sides.     *)
(* SpecDeep : longer runs of update calls on one side only, at the prices  *)
(*            strictly between the two sentinels, with both best-of-side   *)
(*            queries.                                                     *)
(* SpecConc : writer threads running update_level on the bid side (both    *)
(*            sides run the same code), interleaved at each load,          *)
(*            compare-exchange and store of valid and each read and write  *)
(*            of a payload field.                                          *)
(* SpecRead : one reader thread running get_best_bid / get_best_ask        *)
(*            against writer threads, at the same granularity.             *)
(* SpecReadFair : SpecRead with every thread inside a call scheduled again *)
(*            and again (weak fairness of its steps).                      *)
(*                                                                         *)
(* The payload fields are plain (non-atomic) members, so a read that races *)
(* with a write is modelled as returning either the old or the new value:  *)
(* the read is a step of its own, taken before or after the write.         *)
(***************************************************************************)
EXTENDS Integers, Sequences, FiniteSets, TLC

\* ---------------------------------------------------------------- bounds
MaxLevels == 2
MaxPrice == 2
MaxSize == 1
MaxCalls == 3
MaxDeepCalls == 5
NWriters == 3
MaxConcCalls == 4
MaxReadCalls == 2

DblMax == MaxPrice + 1
Prices == 0 .. DblMax
Sizes == 0 .. MaxSize
ValidPrices == 1 .. MaxPrice
Slots == 1 .. MaxLevels
Sides == {"bid", "ask"}
Writers == 1 .. NWriters

\* ------------------------------------------------------------ PriceLevel
\* Mutant of PriceLevel: the default constructor leaves valid set.
PriceLevel_valid == [price |-> 0, size |-> 0, timestamp_ns |-> 0, valid |-> TRUE]

\* PriceLevel() : price(0.0), size(0), timestamp_ns(0), valid(false)
PriceLevel == [price |-> 0, size |-> 0, timestamp_ns |-> 0, valid |-> FALSE]

\* std::nullopt
nullopt == [has |-> FALSE]
\* an engaged std::optional holding v
some(v) == [has |-> TRUE, val |-> v]

VARIABLES
    bids_,      \* std::array<PriceLevel, MaxLevels> bids_
    asks_,      \* std::array<PriceLevel, MaxLevels> asks_
    op,         \* the call made last: its name and arguments
    ret,        \* the value the call made last returned
    calls,      \* number of update calls made so far
    lastUpd,    \* history: per side and price, the last update call at that price
    fresh,      \* history: per side, every update so far was an accepted
                \* size > 0 update at a price not used before on that side
    wr,         \* per writer thread: the locals of its update_level call
    rd,         \* the reader thread: the locals of its get_best_* call
    written,    \* history: per side, the prices stored into a slot so far
    accepted    \* history: the update calls of the threads that returned true

vars == <<bids_, asks_, op, ret, calls, lastUpd, fresh, wr, rd, written, accepted>>
seqVars == <<lastUpd, fresh>>
concVars == <<wr, rd, written, accepted>>

\* no update call was made at this price on this side
NoCall == [made |-> FALSE]
\* a thread that is in no call
Idle == [pc |-> "idle"]

\* ---------------------------------------------------------- update_level
\* Mutant of update_scan: the existing-level branch is taken on any valid
\* slot, the comparison level.price == price left out.
RECURSIVE update_scan_nomatch(_, _, _, _, _)
update_scan_nomatch(levels, i, price, size, timestamp_ns) ==
    IF i > MaxLevels
    THEN [levels |-> levels, ret |-> FALSE]
    ELSE IF levels[i].valid = FALSE
    THEN [levels |-> [levels EXCEPT ![i] =
                        [price |-> price, size |-> size,
                         timestamp_ns |-> timestamp_ns, valid |-> TRUE]],
          ret |-> TRUE]
    ELSE IF size = 0
    THEN [levels |-> [levels EXCEPT ![i].valid = FALSE], ret |-> TRUE]
    ELSE [levels |-> [levels EXCEPT ![i].size = size,
                                    ![i].timestamp_ns = timestamp_ns],
          ret |-> TRUE]

\* Mutant of update_scan: a scan that finds no place overwrites the last slot
\* and returns true.
RECURSIVE update_scan_evict(_, _, _, _, _)
update_scan_evict(levels, i, price, size, timestamp_ns) ==
    IF i > MaxLevels
    THEN [levels |-> [levels EXCEPT ![MaxLevels] =
                        [price |-> price, size |-> size,
                         timestamp_ns |-> timestamp_ns, valid |-> TRUE]],
          ret |-> TRUE]
    ELSE IF levels[i].valid = FALSE
    THEN [levels |-> [levels EXCEPT ![i] =
                        [price |-> price, size |-> size,
                         timestamp_ns |-> timestamp_ns, valid |-> TRUE]],
          ret |-> TRUE]
    ELSE IF levels[i].price = price
    THEN IF size = 0
         THEN [levels |-> [levels EXCEPT ![i].valid = FALSE], ret |-> TRUE]
         ELSE [levels |-> [levels EXCEPT ![i].size = size,
                                         ![i].timestamp_ns = timestamp_ns],
               ret |-> TRUE]
    ELSE update_scan_evict(levels, i + 1, price, size, timestamp_ns)

\* Mutant of update_scan: the existing-level branch overwrites size and leaves
\* timestamp_ns as it was.
RECURSIVE update_scan_keepts(_, _, _, _, _)
update_scan_keepts(levels, i, price, size, timestamp_ns) ==
    IF i > MaxLevels
    THEN [levels |-> levels, ret |-> FALSE]
    ELSE IF levels[i].valid = FALSE
    THEN [levels |-> [levels EXCEPT ![i] =
                        [price |-> price, size |-> size,
                         timestamp_ns |-> timestamp_ns, valid |-> TRUE]],
          ret |-> TRUE]
    ELSE IF levels[i].price = price
    THEN IF size = 0
         THEN [levels |-> [levels EXCEPT ![i].valid = FALSE], ret |-> TRUE]
         ELSE [levels |-> [levels EXCEPT ![i].size = size], ret |-> TRUE]
    ELSE update_scan_keepts(levels, i + 1, price, size, timestamp_ns)

\* The scan of update_level from slot i on, executed with no other thread
\* running: the load of valid and the compare-exchange see the same value,
\* so the compare-exchange cannot fail.
RECURSIVE update_scan(_, _, _, _, _)
update_scan(levels, i, price, size, timestamp_ns) ==
    IF i > MaxLevels
    THEN [levels |-> levels, ret |-> FALSE]
    ELSE IF levels[i].valid = FALSE
    THEN [levels |-> [levels EXCEPT ![i] =
                        [price |-> price, size |-> size,
                         timestamp_ns |-> timestamp_ns, valid |-> TRUE]],
          ret |-> TRUE]
    ELSE IF levels[i].price = price
    THEN IF size = 0
         THEN [levels |-> [levels EXCEPT ![i].valid = FALSE], ret |-> TRUE]
         ELSE [levels |-> [levels EXCEPT ![i].size = size,
                                         ![i].timestamp_ns = timestamp_ns],
               ret |-> TRUE]
    ELSE update_scan(levels, i + 1, price, size, timestamp_ns)

update_level(levels, price, size, timestamp_ns) ==
    update_scan(levels, 1, price, size, timestamp_ns)

\* ------------------------------------------------------------- best of side
\* The PriceLevel returned by value: its price, size and timestamp_ns.
Snapshot(level) ==
    [price |-> level.price, size |-> level.size,
     timestamp_ns |-> level.timestamp_ns]

\* Mutant of bid_scan: the load of valid left out, every slot compared.
RECURSIVE bid_scan_novalid(_, _, _, _)
bid_scan_novalid(levels, i, best_price, best_level) ==
    IF i > MaxLevels
    THEN best_level
    ELSE IF levels[i].price > best_price
    THEN bid_scan_novalid(levels, i + 1, levels[i].price, i)
    ELSE bid_scan_novalid(levels, i + 1, best_price, best_level)

\* The scan of get_best_bid from slot i on; best_level = 0 is nullptr.
RECURSIVE bid_scan(_, _, _, _)
bid_scan(levels, i, best_price, best_level) ==
    IF i > MaxLevels
    THEN best_level
    ELSE IF levels[i].valid /\ levels[i].price > best_price
    THEN bid_scan(levels, i + 1, levels[i].price, i)
    ELSE bid_scan(levels, i + 1, best_price, best_level)

get_best_bid(levels) ==
    LET best_level == bid_scan(levels, 1, 0, 0)
    IN  IF best_level # 0 THEN some(Snapshot(levels[best_level])) ELSE nullopt

\* Mutant of ask_scan: <= in place of <, so the last slot at the lowest
\* price is kept.
RECURSIVE ask_scan_last(_, _, _, _)
ask_scan_last(levels, i, best_price, best_level) ==
    IF i > MaxLevels
    THEN best_level
    ELSE IF levels[i].valid /\ levels[i].price <= best_price
    THEN ask_scan_last(levels, i + 1, levels[i].price, i)
    ELSE ask_scan_last(levels, i + 1, best_price, best_level)

RECURSIVE ask_scan(_, _, _, _)
ask_scan(levels, i, best_price, best_level) ==
    IF i > MaxLevels
    THEN best_level
    ELSE IF levels[i].valid /\ levels[i].price < best_price
    THEN ask_scan(levels, i + 1, levels[i].price, i)
    ELSE ask_scan(levels, i + 1, best_price, best_level)

get_best_ask(levels) ==
    LET best_level == ask_scan(levels, 1, DblMax, 0)
    IN  IF best_level # 0 THEN some(Snapshot(levels[best_level])) ELSE nullopt

\* (bid->price + ask->price) / 2.0, kept as an exact fraction
get_mid_price(bids, asks) ==
    LET bid == get_best_bid(bids)
        ask == get_best_ask(asks)
    IN  IF bid.has /\ ask.has
        THEN some([num |-> bid.val.price + ask.val.price, den |-> 2])
        ELSE nullopt

\* Mutant of get_spread: a negative difference clamped to 0.
get_spread_clamped(bids, asks) ==
    LET bid == get_best_bid(bids)
        ask == get_best_ask(asks)
    IN  IF bid.has /\ ask.has
        THEN some(IF ask.val.price < bid.val.price
                  THEN 0 ELSE ask.val.price - bid.val.price)
        ELSE nullopt

get_spread(bids, asks) ==
    LET bid == get_best_bid(bids)
        ask == get_best_ask(asks)
    IN  IF bid.has /\ ask.has
        THEN some(ask.val.price - bid.val.price)
        ELSE nullopt

\* ------------------------------------------------------------------ Init
\* The constructor: every slot default-constructed, valid stored false.
Init ==
    /\ bids_ = [i \in Slots |-> PriceLevel]
    /\ asks_ = [i \in Slots |-> PriceLevel]
    /\ op = [name |-> "construct"]
    /\ ret = nullopt
    /\ calls = 0
    /\ lastUpd = [sd \in Sides |-> [p \in Prices |-> NoCall]]
    /\ fresh = [sd \in Sides |-> TRUE]
    /\ wr = [w \in Writers |-> Idle]
    /\ rd = Idle
    /\ written = [sd \in Sides |-> {}]
    /\ accepted = {}

\* the history of an update call on side sd that returned r
Record(sd, price, size, timestamp_ns, r) ==
    /\ calls' = calls + 1
    /\ lastUpd' = [lastUpd EXCEPT ![sd][price] =
            [made |-> TRUE, size |-> size, timestamp_ns |-> timestamp_ns,
             ret |-> r,
             prior |-> lastUpd[sd][price].made
                       /\ (lastUpd[sd][price].ret \/ lastUpd[sd][price].prior)]]
    /\ fresh' = [fresh EXCEPT ![sd] =
            fresh[sd] /\ r /\ size > 0 /\ ~lastUpd[sd][price].made]

\* ---------------------------------------------------------------- actions
\* get_timestamp_ns() of the caller
Now == calls + 1

OtherSide(sd) == IF sd = "bid" THEN "ask" ELSE "bid"

\* no update call was made on side sd so far
Untouched(sd) == \A p \in Prices : ~lastUpd[sd][p].made

\* Mutant of CallUpdateBid: update_bid hands asks_ to update_level.
CallUpdateBid_asks(price, size) ==
    /\ LET r == update_level(asks_, price, size, Now)
       IN  /\ asks_' = r.levels
           /\ ret' = r.ret
           /\ Record("bid", price, size, Now, r.ret)
    /\ op' = [name |-> "update_bid", price |-> price, size |-> size,
              timestamp_ns |-> Now]
    /\ UNCHANGED <<bids_, concVars>>

CallUpdateBid(price, size) ==
    /\ LET r == update_level(bids_, price, size, Now)
       IN  /\ bids_' = r.levels
           /\ ret' = r.ret
           /\ Record("bid", price, size, Now, r.ret)
    /\ op' = [name |-> "update_bid", price |-> price, size |-> size,
              timestamp_ns |-> Now]
    /\ UNCHANGED <<asks_, concVars>>

CallUpdateAsk(price, size) ==
    /\ LET r == update_level(asks_, price, size, Now)
       IN  /\ asks_' = r.levels
           /\ ret' = r.ret
           /\ Record("ask", price, size, Now, r.ret)
    /\ op' = [name |-> "update_ask", price |-> price, size |-> size,
              timestamp_ns |-> Now]
    /\ UNCHANGED <<bids_, concVars>>

CallGetBestBid ==
    /\ ret' = get_best_bid(bids_)
    /\ op' = [name |-> "get_best_bid"]
    /\ UNCHANGED <<bids_, asks_, calls, seqVars, concVars>>

CallGetBestAsk ==
    /\ ret' = get_best_ask(asks_)
    /\ op' = [name |-> "get_best_ask"]
    /\ UNCHANGED <<bids_, asks_, calls, seqVars, concVars>>

CallGetMidPrice ==
    /\ ret' = get_mid_price(bids_, asks_)
    /\ op' = [name |-> "get_mid_price"]
    /\ UNCHANGED <<bids_, asks_, calls, seqVars, concVars>>

CallGetSpread ==
    /\ ret' = get_spread(bids_, asks_)
    /\ op' = [name |-> "get_spread"]
    /\ UNCHANGED <<bids_, asks_, calls, seqVars, concVars>>

Next ==
    \/ \E price \in Prices, size \in Sizes :
          calls < MaxCalls /\ CallUpdateBid(price, size)
    \/ \E price \in Prices, size \in Sizes :
          calls < MaxCalls /\ CallUpdateAsk(price, size)
    \/ CallGetBestBid
    \/ CallGetBestAsk
    \/ CallGetMidPrice
    \/ CallGetSpread

Spec == Init /\ [][Next]_vars

NextDeep ==
    \/ \E price \in ValidPrices, size \in Sizes :
          calls < MaxDeepCalls /\ Untouched("ask") /\ CallUpdateBid(price, size)
    \/ \E price \in ValidPrices, size \in Sizes :
          calls < MaxDeepCalls /\ Untouched("bid") /\ CallUpdateAsk(price, size)
    \/ CallGetBestBid
    \/ CallGetBestAsk

SpecDeep == Init /\ [][NextDeep]_vars

\* ------------------------------------------------------- writer threads
Levels(sd) == IF sd = "bid" THEN bids_ ELSE asks_

\* the update of one side's table, the other side left alone
SetLevels(sd, levels) ==
    IF sd = "bid" THEN bids_' = levels /\ asks_' = asks_
                  ELSE asks_' = levels /\ bids_' = bids_

\* every slot is valid and none of them holds price
FullNovel(levels, price) ==
    \A i \in Slots : levels[i].valid /\ levels[i].price # price

\* History kept in the locals of every call in progress on side sd: whether
\* at some moment of the call the side was full with no slot at its price.
Observe(locals, sd, levels) ==
    [w \in Writers |->
        IF locals[w].pc # "idle" /\ locals[w].side = sd
        THEN [locals[w] EXCEPT !.full = @ \/ FullNovel(levels, locals[w].price)]
        ELSE locals[w]]

\* some call was or is made on side sd
Touched(sd) ==
    \/ written[sd] # {}
    \/ \E w \in Writers : wr[w].pc # "idle" /\ wr[w].side = sd

\* update_bid / update_ask entered by thread w.  Idle threads hold no state,
\* so the idle thread of the lowest index is the one that makes the call.
StartUpdate(w, sd, price, size) ==
    /\ wr[w].pc = "idle"
    /\ \A v \in Writers : v < w => wr[v].pc # "idle"
    /\ ~Touched(OtherSide(sd))
    /\ calls' = calls + 1
    /\ wr' = [wr EXCEPT ![w] =
                [pc |-> "load", side |-> sd, price |-> price, size |-> size,
                 timestamp_ns |-> Now, i |-> 1,
                 full |-> FullNovel(Levels(sd), price)]]
    /\ UNCHANGED <<bids_, asks_, op, ret, seqVars, rd, written, accepted>>

\* thread w returns r from its call
Return(w, r) ==
    /\ op' = [name |-> IF wr[w].side = "bid" THEN "update_bid" ELSE "update_ask",
              price |-> wr[w].price, size |-> wr[w].size,
              timestamp_ns |-> wr[w].timestamp_ns, full |-> wr[w].full]
    /\ ret' = r
    /\ accepted' = IF r THEN accepted \cup
                                {[side |-> wr[w].side, price |-> wr[w].price,
                                  size |-> wr[w].size,
                                  timestamp_ns |-> wr[w].timestamp_ns]}
                        ELSE accepted

\* level.valid.load(acquire) == false
LoadValid(w) ==
    /\ wr[w].pc = "load"
    /\ wr' = [wr EXCEPT ![w].pc =
                IF Levels(wr[w].side)[wr[w].i].valid = FALSE THEN "cas" ELSE "cmp"]
    /\ UNCHANGED <<bids_, asks_, op, ret, calls, seqVars, rd, written, accepted>>

\* Mutant of CompareExchange: a failed compare-exchange goes back to the load
\* of the same slot instead of falling through to the price comparison.
CompareExchange_retry(w) ==
    /\ wr[w].pc = "cas"
    /\ LET sd == wr[w].side
           i == wr[w].i
       IN  IF Levels(sd)[i].valid = FALSE
           THEN LET levels == [Levels(sd) EXCEPT ![i].valid = TRUE]
                IN  /\ SetLevels(sd, levels)
                    /\ wr' = Observe([wr EXCEPT ![w].pc = "claim_price"], sd, levels)
           ELSE /\ wr' = [wr EXCEPT ![w].pc = "load"]
                /\ UNCHANGED <<bids_, asks_>>
    /\ UNCHANGED <<op, ret, calls, seqVars, rd, written, accepted>>

\* level.valid.compare_exchange_strong(expected = false, true)
CompareExchange(w) ==
    /\ wr[w].pc = "cas"
    /\ LET sd == wr[w].side
           i == wr[w].i
       IN  IF Levels(sd)[i].valid = FALSE
           THEN LET levels == [Levels(sd) EXCEPT ![i].valid = TRUE]
                IN  /\ SetLevels(sd, levels)
                    /\ wr' = Observe([wr EXCEPT ![w].pc = "claim_price"], sd, levels)
           ELSE /\ wr' = [wr EXCEPT ![w].pc = "cmp"]
                /\ UNCHANGED <<bids_, asks_>>
    /\ UNCHANGED <<op, ret, calls, seqVars, rd, written, accepted>>

\* level.price = price, in the slot just claimed
ClaimPrice(w) ==
    /\ wr[w].pc = "claim_price"
    /\ LET sd == wr[w].side
           levels == [Levels(sd) EXCEPT ![wr[w].i].price = wr[w].price]
       IN  /\ SetLevels(sd, levels)
           /\ wr' = Observe([wr EXCEPT ![w].pc = "claim_size"], sd, levels)
           /\ written' = [written EXCEPT ![sd] = @ \cup {wr[w].price}]
    /\ UNCHANGED <<op, ret, calls, seqVars, rd, accepted>>

\* level.size = size, in the slot just claimed
ClaimSize(w) ==
    /\ wr[w].pc = "claim_size"
    /\ SetLevels(wr[w].side,
                 [Levels(wr[w].side) EXCEPT ![wr[w].i].size = wr[w].size])
    /\ wr' = [wr EXCEPT ![w].pc = "claim_ts"]
    /\ UNCHANGED <<op, ret, calls, seqVars, rd, written, accepted>>

\* level.timestamp_ns = timestamp_ns, in the slot just claimed; return true
ClaimTimestamp(w) ==
    /\ wr[w].pc = "claim_ts"
    /\ SetLevels(wr[w].side,
                 [Levels(wr[w].side) EXCEPT
                    ![wr[w].i].timestamp_ns = wr[w].timestamp_ns])
    /\ wr' = [wr EXCEPT ![w] = Idle]
    /\ Return(w, TRUE)
    /\ UNCHANGED <<calls, seqVars, rd, written>>

\* level.price == price, then the branch on size or the next slot
ComparePrice(w) ==
    /\ wr[w].pc = "cmp"
    /\ IF Levels(wr[w].side)[wr[w].i].price = wr[w].price
       THEN /\ wr' = [wr EXCEPT ![w].pc =
                        IF wr[w].size = 0 THEN "remove" ELSE "upd_size"]
            /\ UNCHANGED <<op, ret, accepted>>
       ELSE IF wr[w].i < MaxLevels
       THEN /\ wr' = [wr EXCEPT ![w].pc = "load", ![w].i = @ + 1]
            /\ UNCHANGED <<op, ret, accepted>>
       ELSE /\ wr' = [wr EXCEPT ![w] = Idle]
            /\ Return(w, FALSE)
    /\ UNCHANGED <<bids_, asks_, calls, seqVars, rd, written>>

\* level.valid.store(false, release); return true
RemoveLevel(w) ==
    /\ wr[w].pc = "remove"
    /\ LET sd == wr[w].side
           levels == [Levels(sd) EXCEPT ![wr[w].i].valid = FALSE]
       IN  /\ SetLevels(sd, levels)
           /\ wr' = [Observe(wr, sd, levels) EXCEPT ![w] = Idle]
    /\ Return(w, TRUE)
    /\ UNCHANGED <<calls, seqVars, rd, written>>

\* level.size = size, in the slot whose price matched
UpdateSize(w) ==
    /\ wr[w].pc = "upd_size"
    /\ SetLevels(wr[w].side,
                 [Levels(wr[w].side) EXCEPT ![wr[w].i].size = wr[w].size])
    /\ wr' = [wr EXCEPT ![w].pc = "upd_ts"]
    /\ UNCHANGED <<op, ret, calls, seqVars, rd, written, accepted>>

\* level.timestamp_ns = timestamp_ns, in the slot whose price matched;
\* return true
UpdateTimestamp(w) ==
    /\ wr[w].pc = "upd_ts"
    /\ SetLevels(wr[w].side,
                 [Levels(wr[w].side) EXCEPT
                    ![wr[w].i].timestamp_ns = wr[w].timestamp_ns])
    /\ wr' = [wr EXCEPT ![w] = Idle]
    /\ Return(w, TRUE)
    /\ UNCHANGED <<calls, seqVars, rd, written>>

WriterStep(w) ==
    \/ LoadValid(w)
    \/ CompareExchange(w)
    \/ ClaimPrice(w)
    \/ ClaimSize(w)
    \/ ClaimTimestamp(w)
    \/ ComparePrice(w)
    \/ RemoveLevel(w)
    \/ UpdateSize(w)
    \/ UpdateTimestamp(w)

NextConc ==
    \/ \E w \in Writers, sd \in {"bid"}, price \in ValidPrices, size \in Sizes :
          calls < MaxConcCalls /\ StartUpdate(w, sd, price, size)
    \/ \E w \in Writers : WriterStep(w)

SpecConc == Init /\ [][NextConc]_vars

\* -------------------------------------------------------- reader thread
\* get_best_bid / get_best_ask entered by the reader thread
StartRead(sd) ==
    /\ rd.pc = "idle"
    /\ rd' = [pc |-> "load", side |-> sd, i |-> 1,
              best_price |-> IF sd = "bid" THEN 0 ELSE DblMax,
              best_level |-> 0]
    /\ UNCHANGED <<bids_, asks_, op, ret, calls, seqVars, wr, written, accepted>>

\* the end of the loop body: the next slot, or the return when no slot was kept
NextSlot(locals) ==
    IF locals.i < MaxLevels
    THEN [locals EXCEPT !.pc = "load", !.i = @ + 1]
    ELSE IF locals.best_level # 0
    THEN [locals EXCEPT !.pc = "copy_price"]
    ELSE Idle

\* the reader thread returns v from its call
ReadReturn(v) ==
    /\ op' = [name |-> IF rd.side = "bid" THEN "get_best_bid" ELSE "get_best_ask"]
    /\ ret' = v

\* level.valid.load(acquire)
ReadValid ==
    /\ rd.pc = "load"
    /\ LET next == IF Levels(rd.side)[rd.i].valid
                   THEN [rd EXCEPT !.pc = "cmp"]
                   ELSE NextSlot(rd)
       IN  /\ rd' = next
           /\ IF next = Idle THEN ReadReturn(nullopt) ELSE UNCHANGED <<op, ret>>
    /\ UNCHANGED <<bids_, asks_, calls, seqVars, wr, written, accepted>>

\* level.price > best_price (bid side), level.price < best_price (ask side)
ReadCompare ==
    /\ rd.pc = "cmp"
    /\ LET price == Levels(rd.side)[rd.i].price
           better == IF rd.side = "bid" THEN price > rd.best_price
                                        ELSE price < rd.best_price
           next == IF better THEN [rd EXCEPT !.pc = "take"] ELSE NextSlot(rd)
       IN  /\ rd' = next
           /\ IF next = Idle THEN ReadReturn(nullopt) ELSE UNCHANGED <<op, ret>>
    /\ UNCHANGED <<bids_, asks_, calls, seqVars, wr, written, accepted>>

\* best_price = level.price; best_level = &level
ReadTake ==
    /\ rd.pc = "take"
    /\ rd' = NextSlot([rd EXCEPT !.best_price = Levels(rd.side)[rd.i].price,
                                 !.best_level = rd.i])
    /\ UNCHANGED <<bids_, asks_, op, ret, calls, seqVars, wr, written, accepted>>

\* return *best_level: the copy of price
CopyPrice ==
    /\ rd.pc = "copy_price"
    /\ rd' = [pc |-> "copy_size", side |-> rd.side, best_level |-> rd.best_level,
              price |-> Levels(rd.side)[rd.best_level].price]
    /\ UNCHANGED <<bids_, asks_, op, ret, calls, seqVars, wr, written, accepted>>

\* return *best_level: the copy of size
CopySize ==
    /\ rd.pc = "copy_size"
    /\ rd' = [pc |-> "copy_ts", side |-> rd.side, best_level |-> rd.best_level,
              price |-> rd.price,
              size |-> Levels(rd.side)[rd.best_level].size]
    /\ UNCHANGED <<bids_, asks_, op, ret, calls, seqVars, wr, written, accepted>>

\* return *best_level: the copy of timestamp_ns, and the return
CopyTimestamp ==
    /\ rd.pc = "copy_ts"
    /\ rd' = Idle
    /\ ReadReturn(some([price |-> rd.price, size |-> rd.size,
                        timestamp_ns |->
                            Levels(rd.side)[rd.best_level].timestamp_ns]))
    /\ UNCHANGED <<bids_, asks_, calls, seqVars, wr, written, accepted>>

ReaderStep ==
    \/ ReadValid
    \/ ReadCompare
    \/ ReadTake
    \/ CopyPrice
    \/ CopySize
    \/ CopyTimestamp

NextRead ==
    \/ \E w \in Writers, sd \in Sides, price \in ValidPrices, size \in Sizes :
          calls < MaxReadCalls /\ StartUpdate(w, sd, price, size)
    \/ \E w \in Writers : WriterStep(w)
    \/ \E sd \in Sides : StartRead(sd)
    \/ ReaderStep

SpecRead == Init /\ [][NextRead]_vars

\* Every thread inside a call keeps being scheduled: the threads are
\* independent, none waits for another.
SpecReadFair ==
    /\ SpecRead
    /\ \A w \in Writers : WF_vars(WriterStep(w))
    /\ WF_vars(ReaderStep)

\* ================================================================ claims
\* the last update call at price p on side sd was a withdrawal (size 0)
Withdrawn(sd, p) == lastUpd[sd][p].made /\ lastUpd[sd][p].size = 0

\* the last update call at price p on side sd had size > 0 and returned true
Live(sd, p) ==
    lastUpd[sd][p].made /\ lastUpd[sd][p].size > 0 /\ lastUpd[sd][p].ret

\* the prices held by the valid slots of a side
HeldPrices(levels) == {levels[i].price : i \in {j \in Slots : levels[j].valid}}

\* C1 (Withdrawal): once update_bid(p, 0, t) has returned and no later
\* update_bid at p was made, get_best_bid returns no snapshot with price p;
\* the same for update_ask and get_best_ask.
C1_Withdrawal ==
    /\ (op.name = "get_best_bid" /\ ret.has) => ~Withdrawn("bid", ret.val.price)
    /\ (op.name = "get_best_ask" /\ ret.has) => ~Withdrawn("ask", ret.val.price)

\* C2 (Price deduplication): on each side no two valid slots hold the same
\* price.
C2_Dedup ==
    \A levels \in {bids_, asks_} : \A i, j \in Slots :
        (i # j /\ levels[i].valid /\ levels[j].valid)
            => levels[i].price # levels[j].price

\* C3 (Size zero never persists): once the update call has returned, no valid
\* slot has size 0.
C3_NoZeroSize ==
    \A levels \in {bids_, asks_} : \A i \in Slots :
        levels[i].valid => levels[i].size # 0

\* C4 (Update then read): after an accepted update_bid(p, s > 0, t) at a price
\* strictly between the sentinels, with no later update at p, get_best_bid
\* returns a snapshot with price >= p, and exactly p when p is the highest
\* price a valid bid slot holds; for the ask side <= and lowest.
C4_UpdateThenRead ==
    /\ op.name = "get_best_bid" =>
          \A p \in ValidPrices : Live("bid", p) =>
              /\ ret.has
              /\ ret.val.price >= p
              /\ (\A q \in HeldPrices(bids_) : q <= p) => ret.val.price = p
    /\ op.name = "get_best_ask" =>
          \A p \in ValidPrices : Live("ask", p) =>
              /\ ret.has
              /\ ret.val.price <= p
              /\ (\A q \in HeldPrices(asks_) : q >= p) => ret.val.price = p

\* C4 witness: get_best_bid has returned the price q of an accepted update
\* made after the accepted update at a lower price p, both still in force.
C4_Witness ==
    /\ op.name = "get_best_bid"
    /\ ret.has
    /\ \E p \in ValidPrices, q \in ValidPrices :
          /\ Live("bid", p) /\ Live("bid", q)
          /\ p < q
          /\ ret.val.price = q
          /\ lastUpd["bid"][q].timestamp_ns > lastUpd["bid"][p].timestamp_ns

\* C5 (Idempotence of overwrite): in the state update_bid(p, s, t) has left,
\* for every earlier state and all arguments, a second update_bid(p, s, t)
\* leaves get_best_bid, get_mid_price and get_spread as they are
\* (get_best_ask reads asks_, which update_bid is not given).
C5_Idempotent ==
    op.name = "update_bid" =>
        LET twice == update_level(bids_, op.price, op.size,
                                  op.timestamp_ns).levels
        IN  /\ get_best_bid(twice) = get_best_bid(bids_)
            /\ get_mid_price(twice, asks_) = get_mid_price(bids_, asks_)
            /\ get_spread(twice, asks_) = get_spread(bids_, asks_)

\* the prices at which an update call was made on side sd
Used(sd) == {p \in Prices : lastUpd[sd][p].made}

\* the call just made is an update on side sd
Updates(sd) ==
    /\ calls' = calls + 1
    /\ op'.name = (IF sd = "bid" THEN "update_bid" ELSE "update_ask")

\* C6 (Capacity bound): after MaxLevels accepted size > 0 updates at distinct
\* prices on a side of a fresh book, an update on that side at a price no slot
\* holds returns false and changes no slot, and an update at a held price
\* returns true.
C6_CapacityBound ==
    [][\A sd \in Sides :
          (fresh[sd] /\ Cardinality(Used(sd)) = MaxLevels /\ Updates(sd)) =>
              IF op'.price \in Used(sd)
              THEN ret' = TRUE
              ELSE ret' = FALSE /\ bids_' = bids_ /\ asks_' = asks_]_vars

\* C6 witness: the first MaxLevels update calls filled the bid side at distinct
\* prices and the next one, at a new price, was refused.
C6_Witness ==
    /\ calls = MaxLevels + 1
    /\ op.name = "update_bid"
    /\ ret = FALSE
    /\ Cardinality({p \in Prices : Live("bid", p)}) = MaxLevels
    /\ \A i \in Slots : bids_[i].valid

\* C9 (Same-price ordering): when an update at price p returned true before
\* the last update at p on that side started, a get_best_* that returns price
\* p carries the size and timestamp of that last update, never an earlier one's.
C9_SamePriceOrdering ==
    /\ (op.name = "get_best_bid" /\ ret.has /\ lastUpd["bid"][ret.val.price].made
            /\ lastUpd["bid"][ret.val.price].prior)
         => /\ ret.val.size = lastUpd["bid"][ret.val.price].size
            /\ ret.val.timestamp_ns = lastUpd["bid"][ret.val.price].timestamp_ns
    /\ (op.name = "get_best_ask" /\ ret.has /\ lastUpd["ask"][ret.val.price].made
            /\ lastUpd["ask"][ret.val.price].prior)
         => /\ ret.val.size = lastUpd["ask"][ret.val.price].size
            /\ ret.val.timestamp_ns = lastUpd["ask"][ret.val.price].timestamp_ns

\* no update call is in progress
Quiescent == \A w \in Writers : wr[w].pc = "idle"

\* the orders in which the calls of the set S can be executed one at a time
Orders(S) ==
    {f \in [1 .. Cardinality(S) -> S] :
        \A i, j \in 1 .. Cardinality(S) : i # j => f[i] # f[j]}

\* the book left by the calls f[k], f[k + 1], ... executed one at a time
RECURSIVE Replay(_, _, _)
Replay(f, k, book) ==
    IF k > Len(f)
    THEN book
    ELSE Replay(f, k + 1,
                [book EXCEPT ![f[k].side] =
                    update_level(@, f[k].price, f[k].size,
                                 f[k].timestamp_ns).levels])

FreshBook == [sd \in Sides |-> [i \in Slots |-> PriceLevel]]

\* C7 (Accepted writes are not lost): once all writers have returned,
\* get_best_bid and get_best_ask return what they return after the calls that
\* returned true, executed one at a time in some order.
C7_SerialOutcome ==
    Quiescent =>
        \E f \in Orders(accepted) :
            LET book == Replay(f, 1, FreshBook)
            IN  /\ get_best_bid(book["bid"]) = get_best_bid(bids_)
                /\ get_best_ask(book["ask"]) = get_best_ask(asks_)

\* C8 (No out-of-thin-air prices): a snapshot returned by get_best_bid or
\* get_best_ask running against update calls has a price that some update call
\* stored into a slot of that side.
C8_NoThinAirPrice ==
    /\ (op.name = "get_best_bid" /\ ret.has) => ret.val.price \in written["bid"]
    /\ (op.name = "get_best_ask" /\ ret.has) => ret.val.price \in written["ask"]

\* C10 (Sole failure mode): an update call returns false only if at some
\* moment of the call every slot of its side was valid and none held its price.
C10_SoleFailureMode ==
    (op.name \in {"update_bid", "update_ask"} /\ ret = FALSE) => op.full

\* the slots of a side with valid == true
ValidSlots(levels) == {i \in Slots : levels[i].valid}

\* C11 (Best-of-side query): with calls made one at a time at prices strictly
\* between the sentinels, get_best_bid returns empty exactly when no bid slot
\* is valid, and otherwise the copy of a valid bid slot whose price is the
\* maximum over the valid bid slots; get_best_ask likewise with the minimum.
C11_BestOfSide ==
    /\ op.name = "get_best_bid" =>
          /\ ret.has <=> ValidSlots(bids_) # {}
          /\ ret.has =>
                \E i \in ValidSlots(bids_) :
                    /\ ret.val = Snapshot(bids_[i])
                    /\ \A j \in ValidSlots(bids_) :
                          bids_[j].price <= bids_[i].price
    /\ op.name = "get_best_ask" =>
          /\ ret.has <=> ValidSlots(asks_) # {}
          /\ ret.has =>
                \E i \in ValidSlots(asks_) :
                    /\ ret.val = Snapshot(asks_[i])
                    /\ \A j \in ValidSlots(asks_) :
                          asks_[j].price >= asks_[i].price

\* C11 witness: get_best_bid has returned the higher of two different prices
\* held by valid bid slots, found in a slot after the one with the lower price.
C11_Witness ==
    /\ op.name = "get_best_bid"
    /\ ret.has
    /\ \E i, j \in ValidSlots(bids_) :
          /\ i < j
          /\ bids_[i].price < bids_[j].price
          /\ ret.val = Snapshot(bids_[j])

\* C12 (Empty after construction): before any update call, every slot of both
\* sides has valid == false and get_best_bid, get_best_ask, get_mid_price and
\* get_spread all return empty.
C12_EmptyAfterConstruction ==
    calls = 0 =>
        /\ \A i \in Slots : bids_[i].valid = FALSE /\ asks_[i].valid = FALSE
        /\ get_best_bid(bids_) = nullopt
        /\ get_best_ask(asks_) = nullopt
        /\ get_mid_price(bids_, asks_) = nullopt
        /\ get_spread(bids_, asks_) = nullopt
        /\ op.name \in {"get_best_bid", "get_best_ask", "get_mid_price",
                        "get_spread"} => ret = nullopt

\* C12 witness: get_spread was called on the book as constructed and returned
\* empty.
C12_Witness ==
    /\ calls = 0
    /\ op.name = "get_spread"
    /\ ret = nullopt

\* the highest price of the valid bid slots above the bid sentinel, 0 if none
BestBidPrice ==
    LET S == {bids_[i].price : i \in ValidSlots(bids_)} \ {0}
    IN  IF S = {} THEN 0 ELSE CHOOSE p \in S : \A q \in S : q <= p

\* the lowest price of the valid ask slots below the ask sentinel, DblMax if none
BestAskPrice ==
    LET S == {asks_[i].price : i \in ValidSlots(asks_)} \ {DblMax}
    IN  IF S = {} THEN DblMax ELSE CHOOSE p \in S : \A q \in S : q >= p

\* C13 (Mid and spread): get_mid_price and get_spread return a value exactly
\* when get_best_bid and get_best_ask are both non-empty; the spread is
\* best_ask.price - best_bid.price, negative when the book is crossed, and the
\* mid is (best_bid.price + best_ask.price) / 2.
C13_MidAndSpread ==
    /\ op.name \in {"get_mid_price", "get_spread"} =>
          ret.has <=> (get_best_bid(bids_).has /\ get_best_ask(asks_).has)
    /\ (op.name = "get_spread" /\ ret.has) =>
          ret.val = BestAskPrice - BestBidPrice
    /\ (op.name = "get_mid_price" /\ ret.has) =>
          /\ ret.val.den = 2
          /\ ret.val.num = BestBidPrice + BestAskPrice

\* C13 witness: get_spread has returned a negative spread on a crossed book.
C13_Witness ==
    /\ op.name = "get_spread"
    /\ ret.has
    /\ ret.val < 0
    /\ BestAskPrice < BestBidPrice

\* the position of a writer inside update_level: the slot it is at, then the
\* statement within the loop body
WriterRank(l) ==
    10 * l.i + (CASE l.pc = "load" -> 1
                  [] l.pc = "cas" -> 2
                  [] l.pc = "cmp" -> 3
                  [] l.pc = "claim_price" -> 4
                  [] l.pc = "claim_size" -> 5
                  [] l.pc = "claim_ts" -> 6
                  [] l.pc = "remove" -> 7
                  [] l.pc = "upd_size" -> 7
                  [] l.pc = "upd_ts" -> 8)

\* the position of the reader inside get_best_bid / get_best_ask
ReaderRank(l) ==
    CASE l.pc = "load" -> 10 * l.i + 1
      [] l.pc = "cmp" -> 10 * l.i + 2
      [] l.pc = "take" -> 10 * l.i + 3
      [] l.pc = "copy_price" -> 10 * MaxLevels + 11
      [] l.pc = "copy_size" -> 10 * MaxLevels + 12
      [] l.pc = "copy_ts" -> 10 * MaxLevels + 13

\* C14 (Wait-freedom): every step of an update or best-of-side call either
\* returns or moves the call forward (a later statement of the same slot, or
\* the next slot), so no slot is visited or compare-exchanged twice, and every
\* call that keeps being scheduled returns, whatever the other threads do.
C14_WaitFree ==
    /\ [][/\ \A w \in Writers :
                IF /\ wr[w].pc # "idle"
                   /\ wr'[w] # wr[w]
                   /\ (wr'[w].pc # wr[w].pc \/ wr'[w].i # wr[w].i)
                THEN \/ wr'[w].pc = "idle"
                     \/ /\ wr'[w].i \in Slots
                        /\ WriterRank(wr'[w]) > WriterRank(wr[w])
                ELSE TRUE
           /\ IF rd.pc # "idle" /\ rd' # rd
              THEN rd'.pc = "idle" \/ ReaderRank(rd') > ReaderRank(rd)
              ELSE TRUE]_vars
    /\ \A w \in Writers : (wr[w].pc # "idle") ~> (wr[w].pc = "idle")
    /\ (rd.pc # "idle") ~> (rd.pc = "idle")

\* C14 witness: a writer has moved on to the second slot while another writer
\* holds the first one, claimed and not yet filled, and the reader is inside
\* its scan.
C14_Witness ==
    /\ rd.pc \in {"load", "cmp", "take"}
    /\ \E w, v \in Writers :
          /\ wr[v].pc = "claim_price" /\ wr[v].i = 1
          /\ wr[w].pc = "load" /\ wr[w].i = 2
          /\ wr[w].side = wr[v].side

\* writer w is between its successful compare-exchange and the end of its
\* payload writes
InClaim(w) == wr[w].pc \in {"claim_price", "claim_size", "claim_ts"}

\* writer w has taken the existing-level branch and is about to store
InMatch(w) == wr[w].pc \in {"remove", "upd_size", "upd_ts"}

\* slot i of side sd is claimed and its claimant has not returned yet
Claiming(sd, i) ==
    \E w \in Writers : InClaim(w) /\ wr[w].side = sd /\ wr[w].i = i

\* an update call with price q and size 0 on side sd is in progress or has
\* returned true
WithdrawalAt(sd, q) ==
    \/ \E c \in accepted : c.side = sd /\ c.price = q /\ c.size = 0
    \/ \E w \in Writers :
          wr[w].pc # "idle" /\ wr[w].side = sd /\ wr[w].price = q
              /\ wr[w].size = 0

\* C15 (Slot-price stability): a store of the existing-level branch (valid =
\* false, size or timestamp_ns) by a call at price p never lands in a slot
\* that is valid, whose claimant has returned, that holds another price q and
\* for which no update with price q and size 0 was made.
C15_SlotPriceStability ==
    [][\A w \in Writers :
          IF InMatch(w) /\ wr'[w].pc # wr[w].pc
          THEN LET sd == wr[w].side
                   level == Levels(sd)[wr[w].i]
               IN  (level.valid /\ ~Claiming(sd, wr[w].i)
                       /\ ~WithdrawalAt(sd, level.price))
                     => level.price = wr[w].price
          ELSE TRUE]_vars

\* C16 (Match branch precondition): when a call is about to store in the
\* existing-level branch, the slot is valid and holds the call's price, and
\* that price is the one the slot's current claimant wrote.
C16_MatchPrecondition ==
    \A w \in Writers :
        InMatch(w) =>
            LET sd == wr[w].side
                level == Levels(sd)[wr[w].i]
            IN  /\ level.valid
                /\ level.price = wr[w].price
                /\ ~\E v \in Writers :
                      wr[v].pc = "claim_price" /\ wr[v].side = sd
                          /\ wr[v].i = wr[w].i

\* C19 (Exclusive slot ownership): no two calls are at the same time between
\* their own successful compare-exchange on one slot and the end of their
\* payload writes to it.
C19_ExclusiveOwnership ==
    \A w, v \in Writers :
        (w # v /\ InClaim(w) /\ InClaim(v) /\ wr[w].side = wr[v].side)
            => wr[w].i # wr[v].i

\* the lowest index of a non-empty set of slots
First(S) == CHOOSE i \in S : \A j \in S : i <= j

\* the valid slots of a side that hold price p
SlotsAt(levels, p) == {i \in ValidSlots(levels) : levels[i].price = p}

\* the update call just made on levels was accepted with size > 0: the lowest
\* valid slot at its price holds its payload, and the best-of-side query
\* result best is that payload when the price is the extremum (top)
Overwritten(levels, best, top) ==
    LET payload == [price |-> op.price, size |-> op.size,
                    timestamp_ns |-> op.timestamp_ns]
    IN  /\ SlotsAt(levels, op.price) # {}
        /\ Snapshot(levels[First(SlotsAt(levels, op.price))]) = payload
        /\ top => best = some(payload)

\* C17 (Overwrite is visible with its payload): right after update_bid(p, s, t)
\* with s > 0 has returned true, the lowest valid bid slot with price p holds
\* (p, s, t), and get_best_bid returns (p, s, t) when p is the highest price of
\* a valid bid slot; the same for update_ask, get_best_ask and the lowest price.
C17_OverwriteVisible ==
    /\ (op.name = "update_bid" /\ ret = TRUE /\ op.size > 0) =>
          Overwritten(bids_, get_best_bid(bids_),
                      \A q \in HeldPrices(bids_) : q <= op.price)
    /\ (op.name = "update_ask" /\ ret = TRUE /\ op.size > 0) =>
          Overwritten(asks_, get_best_ask(asks_),
                      \A q \in HeldPrices(asks_) : q >= op.price)

\* C17 witness: an accepted update_bid with size > 0 has written the first of
\* two valid bid slots at its price, the other one holding an older payload,
\* and get_best_bid returns the new one.
C17_Witness ==
    /\ op.name = "update_bid" /\ ret = TRUE /\ op.size > 0
    /\ \E j \in SlotsAt(bids_, op.price) :
          /\ j > First(SlotsAt(bids_, op.price))
          /\ bids_[j].timestamp_ns < op.timestamp_ns
    /\ get_best_bid(bids_).val.timestamp_ns = op.timestamp_ns

\* C18 (Tie-break): when several valid slots of a side share the extremal
\* price, get_best_bid / get_best_ask returns the payload of the one with the
\* lowest index.
C18_TieBreak ==
    /\ (op.name = "get_best_bid" /\ ret.has) =>
          \E p \in HeldPrices(bids_) :
              /\ \A q \in HeldPrices(bids_) : q <= p
              /\ ret.val = Snapshot(bids_[First(SlotsAt(bids_, p))])
    /\ (op.name = "get_best_ask" /\ ret.has) =>
          \E p \in HeldPrices(asks_) :
              /\ \A q \in HeldPrices(asks_) : q >= p
              /\ ret.val = Snapshot(asks_[First(SlotsAt(asks_, p))])

\* C18 witness: two valid ask slots hold the lowest price with different
\* payloads and get_best_ask has returned the payload of the first.
C18_Witness ==
    /\ op.name = "get_best_ask" /\ ret.has
    /\ Cardinality(SlotsAt(asks_, ret.val.price)) > 1
    /\ \E i, j \in SlotsAt(asks_, ret.val.price) :
          /\ i < j
          /\ asks_[i].timestamp_ns # asks_[j].timestamp_ns
          /\ ret.val.timestamp_ns = asks_[i].timestamp_ns

\* C20 (Frame conditions): update_bid changes no ask slot and update_ask no
\* bid slot; get_best_bid, get_best_ask, get_mid_price and get_spread change
\* no slot; an update that returns false changes no slot of either side.
C20_Frame ==
    [][IF calls' = calls + 1
       THEN /\ op'.name = "update_bid" => asks_' = asks_
            /\ op'.name = "update_ask" => bids_' = bids_
            /\ ret' = FALSE => (bids_' = bids_ /\ asks_' = asks_)
       ELSE bids_' = bids_ /\ asks_' = asks_]_vars

\* C20 witness: an accepted update_bid was made while the ask side held a
\* level written by an earlier call.
C20_Witness ==
    /\ op.name = "update_bid" /\ ret = TRUE
    /\ \E i \in ValidSlots(asks_) :
          asks_[i].timestamp_ns < op.timestamp_ns

====
